---- MODULE Spec2Model ----
(***************************************************************************)
(* Role-based permission core of the hostel management backend:            *)
(* the Role store (models/Role.ts), the static tables (types/enum.ts) and  *)
(* RoleService (services/roleService.ts), with the error mapping of        *)
(* RoleController.  Every service method is one atomic action; the         *)
(* outcome of the last call is kept in `last`.                             *)
(***************************************************************************)
EXTENDS Integers, Sequences, FiniteSets, TLC

(***************************************************************************)
(* Bounds of the model.                                                    *)
(***************************************************************************)
\* most custom roles the store holds at one time
MaxCustomRoles == 1

\* how many steps of five minutes the clock makes
MaxTicks == 4

(***************************************************************************)
(* Vocabulary: types/enum.ts                                               *)
(***************************************************************************)
\* enum USER_ROLE (its values)
USER_ROLE == {"student", "teacher", "admin"}

\* the order in which initializeSystemRoles walks the system roles
SystemRoleOrder == <<"admin", "teacher", "student">>

\* enum PERMISSION
PERMISSION ==
  {"create_user", "read_user", "update_user", "delete_user",
   "manage_roles", "assign_roles",
   "manage_hotels", "view_hotels",
   "manage_bookings", "view_bookings", "create_booking",
   "manage_rooms", "view_rooms",
   "manage_payments", "view_payments",
   "view_reports", "export_data",
   "manage_settings", "view_logs"}

\* ROLE_HIERARCHY: which roles a system role can manage
ROLE_HIERARCHY ==
  [r \in USER_ROLE |->
     CASE r = "admin"   -> {"teacher", "student"}
       [] r = "teacher" -> {"student"}
       [] r = "student" -> {}]

\* faulty variant of ROLE_PERMISSIONS: MANAGE_HOTELS slipped into the
\* student's list
ROLE_PERMISSIONS_studentManages ==
  [r \in USER_ROLE |->
     CASE r = "admin" -> PERMISSION
       [] r = "teacher" ->
            {"read_user", "view_hotels",
             "manage_bookings", "view_bookings", "create_booking",
             "manage_rooms", "view_rooms",
             "view_payments", "view_reports"}
       [] r = "student" ->
            {"manage_hotels", "view_hotels", "view_bookings",
             "create_booking", "view_rooms", "view_payments"}]

\* ROLE_PERMISSIONS: the static permission table
ROLE_PERMISSIONS ==
  [r \in USER_ROLE |->
     CASE r = "admin" -> PERMISSION
       [] r = "teacher" ->
            {"read_user", "view_hotels",
             "manage_bookings", "view_bookings", "create_booking",
             "manage_rooms", "view_rooms",
             "view_payments", "view_reports"}
       [] r = "student" ->
            {"view_hotels", "view_bookings", "create_booking",
             "view_rooms", "view_payments"}]

(***************************************************************************)
(* Inputs                                                                  *)
(***************************************************************************)
\* custom role names in stored (lowercase) form
CustomNames == {"moderator", "user"}

\* names as callers may write them, case variants included
RoleNames == USER_ROLE \cup CustomNames \cup {"Teacher"}

\* String.toLowerCase on the names of RoleNames (the `lowercase: true`
\* setter of roleSchema.name; Mongoose runs it on saves and on query filters)
Lower(n) ==
  CASE n = "Teacher"   -> "teacher"
    [] OTHER           -> n

\* permission lists callers pass to createRole / updateRole
PermBundles == {{"view_hotels", "view_bookings"}, {"manage_hotels"}}

\* identities that exist from the start
SeedUsers == {"U1", "U2"}
\* identities a first Google login creates
GoogleUsers == {"G1", "G2"}
\* an id that never names an identity
GhostUser == "U9"

\* absent optional field / absent reference
None == "none"

\* Role _id values: as many as there can be documents
RoleIds == 1..(Cardinality(USER_ROLE) + MaxCustomRoles)

\* the identity that creates roles and the one that updates them
Creators == {"U1"}
Updaters == {"U2"}

VARIABLES
  roles,    \* the Role collection: a set of role documents
  users,    \* the User collection: id -> role name (the `role` field)
  booted,   \* startServer has run initializeSystemRoles and listens
  last,     \* the last call and its outcome
  inactiveUsers,  \* the identities whose `status` is not 'active'
  req,      \* the HTTP request on the role router and its progress
  now,      \* Date.now(), in milliseconds
  attempts, \* the Map of one rateLimitAuth closure: key -> {count, resetTime}
  rl,       \* what the rate limiter did with the last request
  seen,     \* observer: per (address, email), the requests of its window
  passes,   \* observer: per (address, email), when requests were passed on
  unswept,  \* observer: the Map as it would be had no sweep ever run
  tasks     \* the service calls in progress, each between two awaits

\* the rate limiter in front of the authentication routes and its observers
limiter == <<now, attempts, rl, seen, passes, unswept>>

vars == <<roles, users, booted, last, inactiveUsers, req, limiter, tasks>>

\* the state of the HTTP layer, which the service methods do not touch
web == <<inactiveUsers, req, limiter, tasks>>

(***************************************************************************)
(* Role store: models/Role.ts                                              *)
(***************************************************************************)
\* faulty variant of RoleDoc: the isSystem flag is set on every document
RoleDoc_alwaysSystem(name, perms, isSystem, createdBy) ==
  [id |-> 0, name |-> Lower(name), permissions |-> perms,
   isSystem |-> TRUE, isActive |-> TRUE,
   createdBy |-> createdBy, updatedBy |-> None]

\* a Role document as Role.create persists it: name lowercased by the
\* schema setter, isSystem default false, isActive default true
RoleDoc(name, perms, isSystem, createdBy) ==
  [id |-> 0, name |-> Lower(name), permissions |-> perms,
   isSystem |-> isSystem, isActive |-> TRUE,
   createdBy |-> createdBy, updatedBy |-> None]

\* a fresh _id: ids are opaque, the smallest id no document carries stands
\* for the ObjectId the store generates
FreshId(store) ==
  CHOOSE i \in 1..(Cardinality(store) + 1) :
    /\ \A r \in store : r.id # i
    /\ \A j \in 1..(i - 1) : \E r \in store : r.id = j

\* insertion of a document: the store assigns the _id
Insert(store, doc) == store \cup {[doc EXCEPT !.id = FreshId(store)]}

\* the first document of a result set, in insertion order
First(S) == CHOOSE r \in S : \A q \in S : r.id <= q.id

\* faulty variant of ByName: the filter value is compared as written
ByName_caseSensitive(store, name) == {r \in store : r.name = name}

\* Role.find({ name }): the filter value passes through the lowercase setter
ByName(store, name) == {r \in store : r.name = Lower(name)}

\* faulty variant of ActiveByName: the isActive filter is missing
ActiveByName_anyStatus(store, name) == ByName(store, name)

\* Role.find({ name, isActive: true })
ActiveByName(store, name) == {r \in ByName(store, name) : r.isActive}

\* Role.findById
ById(store, id) == {r \in store : r.id = id}

\* faulty variant of CountUsers: reports whether any identity holds the role
CountUsers_any(us, name) ==
  IF \E u \in DOMAIN us : us[u] = name THEN 1 ELSE 0

\* User.countDocuments({ role: name })
CountUsers(us, name) == Cardinality({u \in DOMAIN us : us[u] = name})

NoCall ==
  [op |-> "none", status |-> 200, error |-> None, id |-> 0, name |-> None,
   user |-> None, by |-> None, count |-> 0, success |-> <<>>, failed |-> <<>>]

\* the error response of a call: status and message, and the count the
\* message of deleteRole states; the arguments are not echoed
Failure(op, msg, status, count) ==
  [NoCall EXCEPT !.op = op, !.error = msg, !.status = status, !.count = count]

\* an Authorization header that is not there
NoCred == [kind |-> "absent", userId |-> None, role |-> None]
\* req.user before verifyToken attaches the identity
NoUser == [userId |-> None, email |-> None, role |-> None]
\* the data of a response that carries none
NoData == [userId |-> None, permission |-> None, hasPermission |-> FALSE]

\* no request has arrived
NoRequest ==
  [stage |-> "none", route |-> None, cred |-> NoCred, perm |-> None,
   user |-> NoUser, checks |-> <<>>, timer |-> "off", race |-> "off",
   passed |-> <<>>, replies |-> <<>>, handler |-> None, data |-> NoData]

\* two calls can be in progress at a time
Tasks == {1, 2}

\* a call that has not started
Idle ==
  [op |-> "none", pc |-> "idle", name |-> None, perms |-> {}, id |-> 0,
   user |-> None, by |-> None, i |-> 0, ids |-> <<>>, success |-> <<>>,
   failed |-> <<>>, error |-> None]

\* Date.now() is read on a grid of five minutes
Tick == 5 * 60 * 1000

\* POST /login: rateLimitAuth(5, 15 * 60 * 1000)
LoginMaxAttempts == 5
LoginWindowMs == 15 * 60 * 1000

\* req.ip and req.body.email of the requests to the authentication routes
Addresses == {"10.0.0.1", "10.0.0.2"}
Emails == {"a@x.io", "b@x.io"}
\* the callers: two accounts behind one address, one of them also from
\* another address
Pairs ==
  {<<"10.0.0.1", "a@x.io">>, <<"10.0.0.1", "b@x.io">>,
   <<"10.0.0.2", "a@x.io">>}

TooManyRequests == 429

\* before the first request
NoVerdict ==
  [ip |-> None, email |-> None, key |-> None, status |-> 0, next |-> FALSE,
   minutes |-> 0]

NoWindow == [n |-> 0, until |-> 0]

Init ==
  /\ roles = {}
  /\ users \in [SeedUsers -> USER_ROLE]
  /\ booted = FALSE
  /\ last = NoCall
  /\ inactiveUsers = {}
  /\ req = NoRequest
  /\ now = 0
  /\ attempts = {}
  /\ rl = NoVerdict
  /\ seen = [p \in Pairs |-> NoWindow]
  /\ passes = [p \in Pairs |-> [t \in 0..MaxTicks |-> 0]]
  /\ unswept = {}
  /\ tasks = [t \in Tasks |-> Idle]

(***************************************************************************)
(* RoleService.initializeSystemRoles                                       *)
(***************************************************************************)
RECURSIVE SeedFrom_upsert(_, _)
\* faulty variant of SeedFrom: an existing system role is reset to the
\* static permission table
SeedFrom_upsert(i, store) ==
  IF i > Len(SystemRoleOrder) THEN store
  ELSE LET n == SystemRoleOrder[i] IN
       IF ByName(store, n) # {}
       THEN SeedFrom_upsert(i + 1,
              {IF r.name = n THEN [r EXCEPT !.permissions = ROLE_PERMISSIONS[n]]
               ELSE r : r \in store})
       ELSE SeedFrom_upsert(i + 1,
              Insert(store, RoleDoc(n, ROLE_PERMISSIONS[n], TRUE, None)))

RECURSIVE SeedFrom(_, _)
\* the loop over systemRoles: create each role only if no role has its name
SeedFrom(i, store) ==
  IF i > Len(SystemRoleOrder) THEN store
  ELSE LET n == SystemRoleOrder[i] IN
       IF ByName(store, n) # {}
       THEN SeedFrom(i + 1, store)
       ELSE SeedFrom(i + 1,
                     Insert(store, RoleDoc(n, ROLE_PERMISSIONS[n], TRUE, None)))

\* faulty variant of initializeSystemRoles: existing system roles are reset
initializeSystemRoles_reset ==
  /\ roles' = SeedFrom_upsert(1, roles)
  /\ booted' = TRUE
  /\ last' = [NoCall EXCEPT !.op = "initializeSystemRoles"]
  /\ UNCHANGED <<users, web>>

initializeSystemRoles ==
  /\ roles' = SeedFrom(1, roles)
  /\ booted' = TRUE
  /\ last' = [NoCall EXCEPT !.op = "initializeSystemRoles"]
  /\ UNCHANGED <<users, web>>

(***************************************************************************)
(* Errors thrown by RoleService and their mapping in RoleController        *)
(***************************************************************************)
E_exists        == "Role with this name already exists"
E_roleNotFound  == "Role not found"
E_sysModify     == "System roles cannot be modified"
E_sysDelete     == "System roles cannot be deleted"
E_inUse         == "Cannot delete role. N user(s) are currently assigned this role."
E_userNotFound  == "User not found"
E_roleInactive  == "Role not found or inactive"
E_noAssigner    == "Assigning user not found"
E_noPermission  == "You do not have permission to assign this role"

\* error.message.includes(sub), for the substrings the controller tests
Includes(msg, sub) ==
  CASE sub = "already exists" -> msg = E_exists
    [] sub = "not found" ->
         msg \in {E_roleNotFound, E_userNotFound, E_roleInactive, E_noAssigner}
    [] sub = "cannot be modified" -> msg = E_sysModify
    [] sub = "cannot be deleted" -> msg = E_sysDelete
    [] sub = "user(s) are currently assigned" -> msg = E_inUse
    [] sub = "do not have permission" -> msg = E_noPermission
    [] OTHER -> FALSE

\* HTTP statuses of the error taxonomy
Ok == 200
Created == 201
Forbidden == 403
NotFound == 404
Conflict == 409
InternalError == 500

\* catch block of RoleController.createRole
createRoleStatus(msg) ==
  IF Includes(msg, "already exists") THEN Conflict ELSE InternalError

\* catch block of RoleController.updateRole
updateRoleStatus(msg) ==
  IF Includes(msg, "not found") THEN NotFound
  ELSE IF Includes(msg, "cannot be modified") THEN Forbidden
  ELSE InternalError

\* catch block of RoleController.deleteRole
deleteRoleStatus(msg) ==
  IF Includes(msg, "not found") THEN NotFound
  ELSE IF Includes(msg, "cannot be deleted") THEN Forbidden
  ELSE IF Includes(msg, "user(s) are currently assigned") THEN Conflict
  ELSE InternalError

\* catch block of RoleController.assignRoleToUser and bulkAssignRole
assignStatus(msg) ==
  IF Includes(msg, "not found") THEN NotFound
  ELSE IF Includes(msg, "do not have permission") THEN Forbidden
  ELSE InternalError

(***************************************************************************)
(* RoleService.createRole                                                  *)
(***************************************************************************)
createRole(name, perms, createdBy) ==
  /\ booted
  /\ IF ByName(roles, name) # {}
     THEN /\ last' = Failure("createRole", E_exists, createRoleStatus(E_exists), 0)
          /\ UNCHANGED roles
     ELSE /\ Cardinality({r \in roles : ~r.isSystem}) < MaxCustomRoles
          /\ roles' = Insert(roles, RoleDoc(name, perms, FALSE, createdBy))
          /\ last' = [NoCall EXCEPT !.op = "createRole", !.name = name,
                        !.by = createdBy, !.id = FreshId(roles),
                        !.status = Created]
  /\ UNCHANGED <<users, booted, web>>

(***************************************************************************)
(* RoleController.createRole in front of it: createRoleSchema.parse        *)
(***************************************************************************)
\* /^[a-z_]+$/ on the names of RoleNames
IsSlug(n) == n = Lower(n)

\* request bodies of POST /api/role: any name, any permission list, the
\* empty one included; displayName and description are well-formed
Bodies == [name : RoleNames, permissions : PermBundles \cup {{}}]

\* the fields that createRoleSchema.parse(req.body) finds at fault
createRoleIssues(body) ==
  {f \in {"name"} : ~IsSlug(body.name)}
    \cup {f \in {"permissions"} :
            body.permissions = {} \/ ~(body.permissions \subseteq PERMISSION)}

\* ZodError.message: the issues, serialised
ZodMessage(issues) ==
  CASE issues = {"name"} ->
         "[name: Role name can only contain lowercase letters and underscores]"
    [] issues = {"permissions"} ->
         "[permissions: At least one permission is required]"
    [] OTHER ->
         "[name: Role name can only contain lowercase letters and underscores, permissions: At least one permission is required]"

\* the handler: parse, then the service; a ZodError lands in the catch block
createRoleHandler(body, userId) ==
  LET issues == createRoleIssues(body) IN
    IF issues # {}
    THEN /\ booted
         /\ last' = Failure("createRole", ZodMessage(issues),
                            createRoleStatus(ZodMessage(issues)), 0)
         /\ UNCHANGED <<roles, users, booted, web>>
    ELSE createRole(body.name, body.permissions, userId)

(***************************************************************************)
(* RoleService.updateRole                                                  *)
(***************************************************************************)
\* updateRoleSchema: the fields a patch may carry, each optional
\* (`fields` names the keys present in the patch object)
Patches ==
  {p \in [fields : SUBSET {"permissions", "isActive"},
          permissions : PermBundles \cup {{}}, isActive : BOOLEAN] :
     /\ ("permissions" \in p.fields) = (p.permissions # {})
     /\ ("isActive" \notin p.fields) => ~p.isActive}

\* Role.findByIdAndUpdate(roleId, { ...updateData, updatedBy })
ApplyPatch(r, patch, updatedBy) ==
  [r EXCEPT !.permissions =
              IF "permissions" \in patch.fields THEN patch.permissions ELSE @,
            !.isActive = IF "isActive" \in patch.fields THEN patch.isActive ELSE @,
            !.updatedBy = updatedBy]

\* faulty variant of updateRole: the isSystem test is missing
updateRole_noSystemCheck(roleId, patch, updatedBy) ==
  LET found == ById(roles, roleId)
      call == [NoCall EXCEPT !.op = "updateRole", !.id = roleId, !.by = updatedBy]
  IN
  /\ booted
  /\ IF found = {}
     THEN /\ last' = Failure("updateRole", E_roleNotFound,
                             updateRoleStatus(E_roleNotFound), 0)
          /\ UNCHANGED roles
     ELSE LET role == First(found) IN
          /\ roles' = (roles \ {role}) \cup {ApplyPatch(role, patch, updatedBy)}
          /\ last' = [call EXCEPT !.name = role.name]
  /\ UNCHANGED <<users, booted, web>>

updateRole(roleId, patch, updatedBy) ==
  LET found == ById(roles, roleId)
      call == [NoCall EXCEPT !.op = "updateRole", !.id = roleId, !.by = updatedBy]
  IN
  /\ booted
  /\ IF found = {}
     THEN /\ last' = Failure("updateRole", E_roleNotFound,
                             updateRoleStatus(E_roleNotFound), 0)
          /\ UNCHANGED roles
     ELSE LET role == First(found) IN
          IF role.isSystem
          THEN /\ last' = Failure("updateRole", E_sysModify,
                                  updateRoleStatus(E_sysModify), 0)
               /\ UNCHANGED roles
          ELSE /\ roles' = (roles \ {role}) \cup {ApplyPatch(role, patch, updatedBy)}
               /\ last' = [call EXCEPT !.name = role.name]
  /\ UNCHANGED <<users, booted, web>>

(***************************************************************************)
(* RoleService.deleteRole                                                  *)
(***************************************************************************)
deleteRole(roleId) ==
  LET found == ById(roles, roleId)
      call == [NoCall EXCEPT !.op = "deleteRole", !.id = roleId]
  IN
  /\ booted
  /\ IF found = {}
     THEN /\ last' = Failure("deleteRole", E_roleNotFound,
                             deleteRoleStatus(E_roleNotFound), 0)
          /\ UNCHANGED roles
     ELSE LET role == First(found)
              usersWithRole == CountUsers(users, role.name)
          IN
          IF role.isSystem
          THEN /\ last' = Failure("deleteRole", E_sysDelete,
                                  deleteRoleStatus(E_sysDelete), 0)
               /\ UNCHANGED roles
          ELSE IF usersWithRole > 0
          THEN /\ last' = Failure("deleteRole", E_inUse,
                                  deleteRoleStatus(E_inUse), usersWithRole)
               /\ UNCHANGED roles
          ELSE /\ roles' = roles \ {role}
               /\ last' = [call EXCEPT !.name = role.name]
  /\ UNCHANGED <<users, booted, web>>

\* faulty variant of canAssignRole: an administrator may assign custom
\* roles as well
canAssignRole_adminAssignsCustom(userRole, targetRole) ==
  IF userRole \in USER_ROLE
  THEN \/ targetRole \in ROLE_HIERARCHY[userRole]
       \/ userRole = targetRole
       \/ (userRole = "admin" /\ targetRole \notin USER_ROLE)
  ELSE userRole = "admin"

(***************************************************************************)
(* RoleService.canAssignRole, assignRoleToUser, bulkAssignRole             *)
(***************************************************************************)
\* faulty variant of canAssignRole: an assigner cannot assign its own role
canAssignRole_noSelf(userRole, targetRole) ==
  IF userRole \in USER_ROLE
  THEN targetRole \in ROLE_HIERARCHY[userRole]
  ELSE userRole = "admin"

\* variant of canAssignRole that branches on the TARGET being a system
\* role, so that an admin can assign custom roles
canAssignRole_byTarget(userRole, targetRole) ==
  IF targetRole \in USER_ROLE
  THEN /\ userRole \in USER_ROLE
       /\ (targetRole \in ROLE_HIERARCHY[userRole] \/ userRole = targetRole)
  ELSE userRole = "admin"

\* the branch is taken on the ASSIGNER's role being a system role
canAssignRole(userRole, targetRole) ==
  IF userRole \in USER_ROLE
  THEN targetRole \in ROLE_HIERARCHY[userRole] \/ userRole = targetRole
  ELSE userRole = "admin"

\* ids a caller may name: the identities there are and one there is not
UserInputs == DOMAIN users \cup {GhostUser}

\* faulty variant of assignError: an identity that is an administrator is
\* out of the reach of an assigner that is not
assignError_rankedTarget(store, us, userId, roleName, assignedBy) ==
  IF userId \notin DOMAIN us THEN E_userNotFound
  ELSE IF ActiveByName(store, roleName) = {} THEN E_roleInactive
  ELSE IF assignedBy \notin DOMAIN us THEN E_noAssigner
  ELSE IF ~canAssignRole(us[assignedBy], roleName) THEN E_noPermission
  ELSE IF us[userId] = "admin" /\ us[assignedBy] # "admin"
  THEN E_noPermission
  ELSE None

\* the error assignRoleToUser throws over the given stores, None if it
\* reaches the write: target, role, assigner and permission, in that order
assignError(store, us, userId, roleName, assignedBy) ==
  IF userId \notin DOMAIN us THEN E_userNotFound
  ELSE IF ActiveByName(store, roleName) = {} THEN E_roleInactive
  ELSE IF assignedBy \notin DOMAIN us THEN E_noAssigner
  ELSE IF ~canAssignRole(us[assignedBy], roleName) THEN E_noPermission
  ELSE None

assignRoleToUser(userId, roleName, assignedBy) ==
  LET call == [NoCall EXCEPT !.op = "assignRoleToUser", !.user = userId,
                             !.name = roleName, !.by = assignedBy]
      msg == assignError(roles, users, userId, roleName, assignedBy)
  IN
  /\ booted
  /\ IF msg # None
     THEN /\ last' = Failure("assignRoleToUser", msg, assignStatus(msg), 0)
          /\ UNCHANGED users
     ELSE /\ users' = [users EXCEPT ![userId] = roleName]
          /\ last' = call
  /\ UNCHANGED <<roles, booted, web>>

\* userIds lists given to bulkAssignRole
BulkLists ==
  {<<"U1">>, <<"U1", "U2">>, <<"U2", GhostUser, "U1">>, <<GhostUser>>}

RECURSIVE BulkLoop(_, _, _, _)
\* the for loop of bulkAssignRole over userIds[i..]; acc carries the user
\* store and the two result lists
BulkLoop(userIds, i, roleName, acc) ==
  IF i > Len(userIds) THEN acc
  ELSE LET userId == userIds[i] IN
       IF userId \notin DOMAIN acc.users
       THEN BulkLoop(userIds, i + 1, roleName,
                     [acc EXCEPT !.failed =
                        Append(@, [userId |-> userId, error |-> E_userNotFound])])
       ELSE BulkLoop(userIds, i + 1, roleName,
                     [acc EXCEPT !.users = [@ EXCEPT ![userId] = roleName],
                                 !.success = Append(@, userId)])

\* faulty variant of bulkError: the canAssignRole test is missing
bulkError_noPermissionCheck(store, us, roleName, assignedBy) ==
  IF ActiveByName(store, roleName) = {} THEN E_roleInactive
  ELSE IF assignedBy \notin DOMAIN us THEN E_noAssigner
  ELSE None

\* the error bulkAssignRole throws before its loop, None if it reaches the
\* loop: role, assigner and permission, in that order
bulkError(store, us, roleName, assignedBy) ==
  IF ActiveByName(store, roleName) = {} THEN E_roleInactive
  ELSE IF assignedBy \notin DOMAIN us THEN E_noAssigner
  ELSE IF ~canAssignRole(us[assignedBy], roleName) THEN E_noPermission
  ELSE None

\* what bulkAssignRole does to the user store and what it returns: nothing
\* and no lists when it throws, else the outcome of its loop
bulkResult(store, us, userIds, roleName, assignedBy) ==
  IF bulkError(store, us, roleName, assignedBy) # None
  THEN [users |-> us, success |-> <<>>, failed |-> <<>>]
  ELSE BulkLoop(userIds, 1, roleName,
                [users |-> us, success |-> <<>>, failed |-> <<>>])

bulkAssignRole(userIds, roleName, assignedBy) ==
  LET call == [NoCall EXCEPT !.op = "bulkAssignRole", !.name = roleName,
                             !.by = assignedBy]
      msg == bulkError(roles, users, roleName, assignedBy)
      res == bulkResult(roles, users, userIds, roleName, assignedBy)
  IN
  /\ booted
  /\ users' = res.users
  /\ last' = IF msg # None
             THEN Failure("bulkAssignRole", msg, assignStatus(msg), 0)
             ELSE [call EXCEPT !.success = res.success, !.failed = res.failed]
  /\ UNCHANGED <<roles, booted, web>>

(***************************************************************************)
(* RoleService.getRolePermissions, hasPermission                           *)
(***************************************************************************)
\* faulty variant of getRolePermissions: inactive roles are looked up too
getRolePermissions_anyStatus(store, roleName) ==
  IF ByName(store, roleName) # {}
  THEN First(ByName(store, roleName)).permissions
  ELSE IF roleName \in USER_ROLE THEN ROLE_PERMISSIONS[roleName]
  ELSE {}

getRolePermissions(store, roleName) ==
  IF ActiveByName(store, roleName) # {}
  THEN First(ActiveByName(store, roleName)).permissions
  ELSE IF roleName \in USER_ROLE THEN ROLE_PERMISSIONS[roleName]
  ELSE {}

\* faulty variant of hasPermission: an id that names no identity is given
\* the permissions of the default role
hasPermission_ghostIsStudent(store, us, userId, permission) ==
  IF userId \notin DOMAIN us THEN permission \in ROLE_PERMISSIONS["student"]
  ELSE permission \in getRolePermissions(store, us[userId])

hasPermission(store, us, userId, permission) ==
  IF userId \notin DOMAIN us THEN FALSE
  ELSE permission \in getRolePermissions(store, us[userId])

(***************************************************************************)
(* The same methods between their awaits: every database round trip is a   *)
(* step of its own, and the steps of two calls interleave                  *)
(***************************************************************************)
\* the other stores and layers, which a step of a call leaves alone
Aside == <<last, inactiveUsers, req, limiter>>

\* initializeSystemRoles, `await Role.findOne({ name: roleData.name })` of
\* the i-th system role; the call starts with the first
SeedStep(c, store) ==
  IF ByName(store, SystemRoleOrder[c.i]) # {}
  THEN IF c.i = Len(SystemRoleOrder)
       THEN [c EXCEPT !.pc = "done"]
       ELSE [c EXCEPT !.i = c.i + 1]
  ELSE [c EXCEPT !.pc = "create"]

seedFind(t) ==
  LET c == IF tasks[t].op = "none"
           THEN [Idle EXCEPT !.op = "initializeSystemRoles", !.pc = "find",
                             !.i = 1]
           ELSE tasks[t]
  IN /\ c.op = "initializeSystemRoles" /\ c.pc = "find"
     /\ tasks' = [tasks EXCEPT ![t] = SeedStep(c, roles)]
     /\ booted' = (booted \/ tasks'[t].pc = "done")
     /\ UNCHANGED <<roles, users, Aside>>

\* initializeSystemRoles, `await Role.create({...roleData})`
seedSave(t) ==
  LET c == tasks[t]
      n == SystemRoleOrder[c.i]
  IN /\ c.op = "initializeSystemRoles" /\ c.pc = "create"
     /\ roles' = Insert(roles, RoleDoc(n, ROLE_PERMISSIONS[n], TRUE, None))
     /\ tasks' = [tasks EXCEPT ![t] =
                    IF c.i = Len(SystemRoleOrder)
                    THEN [c EXCEPT !.pc = "done"]
                    ELSE [c EXCEPT !.pc = "find", !.i = c.i + 1]]
     /\ booted' = (booted \/ tasks'[t].pc = "done")
     /\ UNCHANGED <<users, Aside>>

\* createRole, `await Role.findOne({ name: roleData.name })`
createFind(t, name, perms, createdBy) ==
  /\ booted
  /\ tasks[t].op = "none"
  /\ tasks' = [tasks EXCEPT ![t] =
                 IF ByName(roles, name) # {}
                 THEN [Idle EXCEPT !.op = "createRole", !.pc = "done",
                                   !.name = name, !.error = E_exists]
                 ELSE [Idle EXCEPT !.op = "createRole", !.pc = "create",
                                   !.name = name, !.perms = perms,
                                   !.by = createdBy]]
  /\ UNCHANGED <<roles, users, booted, Aside>>

\* createRole, `await Role.create({...roleData, createdBy})`: the schema
\* declares no unique index, the insert always succeeds
createSave(t) ==
  LET c == tasks[t] IN
    /\ c.op = "createRole" /\ c.pc = "create"
    /\ roles' = Insert(roles, RoleDoc(c.name, c.perms, FALSE, c.by))
    /\ tasks' = [tasks EXCEPT ![t] = [c EXCEPT !.pc = "done"]]
    /\ UNCHANGED <<users, booted, Aside>>

\* a call that ends here with the given error, or goes on to pc
Thrown(c, msg) == [c EXCEPT !.pc = "done", !.error = msg]
Goes(c, pc) == [c EXCEPT !.pc = pc]

\* deleteRole, `await Role.findById(roleId)` and the isSystem test
deleteFind(t, roleId) ==
  LET c == [Idle EXCEPT !.op = "deleteRole", !.id = roleId]
      found == ById(roles, roleId)
  IN /\ booted
     /\ tasks[t].op = "none"
     /\ tasks' = [tasks EXCEPT ![t] =
                    IF found = {} THEN Thrown(c, E_roleNotFound)
                    ELSE IF First(found).isSystem THEN Thrown(c, E_sysDelete)
                    ELSE Goes([c EXCEPT !.name = First(found).name], "count")]
     /\ UNCHANGED <<roles, users, booted, Aside>>

\* deleteRole, `await User.countDocuments({ role: role.name })`
deleteCount(t) ==
  LET c == tasks[t] IN
    /\ c.op = "deleteRole" /\ c.pc = "count"
    /\ tasks' = [tasks EXCEPT ![t] =
                   IF CountUsers(users, c.name) > 0 THEN Thrown(c, E_inUse)
                   ELSE Goes(c, "remove")]
    /\ UNCHANGED <<roles, users, booted, Aside>>

\* deleteRole, `await Role.findByIdAndDelete(roleId)`
deleteRemove(t) ==
  LET c == tasks[t] IN
    /\ c.op = "deleteRole" /\ c.pc = "remove"
    /\ roles' = roles \ ById(roles, c.id)
    /\ tasks' = [tasks EXCEPT ![t] = Goes(c, "done")]
    /\ UNCHANGED <<users, booted, Aside>>

\* assignRoleToUser, `await User.findById(userId)`
assignUser(t, userId, roleName, assignedBy) ==
  LET c == [Idle EXCEPT !.op = "assignRoleToUser", !.user = userId,
                        !.name = roleName, !.by = assignedBy]
  IN /\ booted
     /\ tasks[t].op = "none"
     /\ tasks' = [tasks EXCEPT ![t] =
                    IF userId \notin DOMAIN users
                    THEN Thrown(c, E_userNotFound) ELSE Goes(c, "role")]
     /\ UNCHANGED <<roles, users, booted, Aside>>

\* assignRoleToUser and bulkAssignRole,
\* `await Role.findOne({ name: roleName, isActive: true })`; bulkAssignRole
\* starts with it
assignRole(t, userIds, roleName, assignedBy) ==
  LET c == IF tasks[t].op = "none"
           THEN [Idle EXCEPT !.op = "bulkAssignRole", !.pc = "role",
                             !.ids = userIds, !.name = roleName,
                             !.by = assignedBy, !.i = 1]
           ELSE tasks[t]
  IN /\ booted
     /\ c.op \in {"assignRoleToUser", "bulkAssignRole"} /\ c.pc = "role"
     /\ tasks' = [tasks EXCEPT ![t] =
                    IF ActiveByName(roles, c.name) = {}
                    THEN Thrown(c, E_roleInactive) ELSE Goes(c, "assigner")]
     /\ UNCHANGED <<roles, users, booted, Aside>>

\* assignRoleToUser and bulkAssignRole, `await User.findById(assignedBy)`
\* and the canAssignRole test
assignCheck(t) ==
  LET c == tasks[t] IN
    /\ c.op \in {"assignRoleToUser", "bulkAssignRole"} /\ c.pc = "assigner"
    /\ tasks' = [tasks EXCEPT ![t] =
                   IF c.by \notin DOMAIN users THEN Thrown(c, E_noAssigner)
                   ELSE IF ~canAssignRole(users[c.by], c.name)
                   THEN Thrown(c, E_noPermission)
                   ELSE IF c.op = "bulkAssignRole"
                   THEN Goes(c, IF c.ids = <<>> THEN "done" ELSE "find")
                   ELSE Goes(c, "write")]
    /\ UNCHANGED <<roles, users, booted, Aside>>

\* bulkAssignRole, `await User.findById(userId)` of the loop
bulkFind(t) ==
  LET c == tasks[t]
      userId == c.ids[c.i]
  IN /\ c.op = "bulkAssignRole" /\ c.pc = "find"
     /\ tasks' = [tasks EXCEPT ![t] =
                    IF userId \in DOMAIN users THEN Goes(c, "write")
                    ELSE [c EXCEPT
                            !.failed = Append(@, [userId |-> userId,
                                                  error |-> E_userNotFound]),
                            !.i = c.i + 1,
                            !.pc = IF c.i = Len(c.ids) THEN "done"
                                   ELSE "find"]]
     /\ UNCHANGED <<roles, users, booted, Aside>>

\* assignRoleToUser and bulkAssignRole,
\* `await User.findByIdAndUpdate(userId, { role: roleName })`
assignWrite(t) ==
  LET c == tasks[t]
      userId == IF c.op = "bulkAssignRole" THEN c.ids[c.i] ELSE c.user
  IN /\ c.op \in {"assignRoleToUser", "bulkAssignRole"} /\ c.pc = "write"
     /\ users' = [u \in DOMAIN users |->
                    IF u = userId THEN c.name ELSE users[u]]
     /\ tasks' = [tasks EXCEPT ![t] =
                    IF c.op = "bulkAssignRole"
                    THEN [c EXCEPT !.success = Append(@, userId),
                                   !.i = c.i + 1,
                                   !.pc = IF c.i = Len(c.ids) THEN "done"
                                          ELSE "find"]
                    ELSE Goes(c, "done")]
     /\ UNCHANGED <<roles, booted, Aside>>

\* the call has returned or thrown; its caller goes on
return(t) ==
  /\ tasks[t].pc = "done"
  /\ tasks' = [tasks EXCEPT ![t] = Idle]
  /\ UNCHANGED <<roles, users, booted, Aside>>

(***************************************************************************)
(* The environment of the role service                                     *)
(***************************************************************************)
\* AuthService.googleLogin, first login of an unknown Google account:
\* the identity is created with role 'user'
googleLogin(g) ==
  /\ booted
  /\ g \notin DOMAIN users
  /\ users' = [u \in DOMAIN users \cup {g} |-> IF u = g THEN "user" ELSE users[u]]
  /\ last' = [NoCall EXCEPT !.op = "googleLogin", !.user = g]
  /\ UNCHANGED <<roles, booted, web>>

\* an operator edits the permissions of a system role document in the
\* store itself (the service refuses to), between two server starts
handEdit(name, perms) ==
  /\ \E r \in ByName(roles, name) :
       /\ r.isSystem
       /\ roles' = (roles \ {r}) \cup {[r EXCEPT !.permissions = perms]}
  /\ last' = [NoCall EXCEPT !.op = "handEdit", !.name = name]
  /\ UNCHANGED <<users, booted, web>>

(***************************************************************************)
(* The role router: routes/api/roleRoutes.ts, and the middleware in front  *)
(* of its handlers: middlewares/authMiddleware.ts                          *)
(***************************************************************************)
Unauthorized == 401

\* the Authorization headers a client may send: none, one that does not
\* start with 'Bearer ', 'Bearer ' with nothing after it, a token whose
\* signature does not verify, an expired token, and a token that verifies
\* and names userId
\* AuthService.generateToken signs { userId, email, role } with the role of
\* the identity at the time: the administrator's token says admin, the
\* others' student
TokenRole ==
  [u \in SeedUsers \cup {GhostUser} |->
     IF u = "U1" THEN "admin" ELSE "student"]

Credentials ==
  {[kind |-> k, userId |-> None, role |-> None] :
     k \in {"absent", "notBearer", "emptyToken", "badSignature", "expired"}}
  \cup {[kind |-> "valid", userId |-> u, role |-> TokenRole[u]] :
          u \in SeedUsers \cup {GhostUser}}

\* the email field of the seed identities
EmailOf == [u \in SeedUsers |-> IF u = "U1" THEN "u1@mail" ELSE "u2@mail"]

\* the routes: the middleware between verifyToken and the handler (gate),
\* the permissions given to requirePermission, and the controller method.
\* The last one is on the example router, behind verifyToken as well.
Routes ==
  [r \in {"POST /initialize", "POST /assign", "POST /bulk-assign",
          "GET /users/:name", "GET /permissions/:name",
          "GET /check-permission/:perm", "POST /", "GET /", "GET /:id",
          "PUT /:id", "DELETE /:id", "GET /multi-permission"} |->
     CASE r = "POST /initialize" ->
            [gate |-> "requireAdmin", perms |-> <<>>,
             handler |-> "initializeSystemRoles"]
       [] r = "POST /assign" ->
            [gate |-> "requirePermission", perms |-> <<"assign_roles">>,
             handler |-> "assignRoleToUser"]
       [] r = "POST /bulk-assign" ->
            [gate |-> "requirePermission", perms |-> <<"assign_roles">>,
             handler |-> "bulkAssignRole"]
       [] r = "GET /users/:name" ->
            [gate |-> "requirePermission", perms |-> <<"read_user">>,
             handler |-> "getUsersByRole"]
       [] r = "GET /permissions/:name" ->
            [gate |-> "requirePermission", perms |-> <<"manage_roles">>,
             handler |-> "getRolePermissions"]
       [] r = "GET /check-permission/:perm" ->
            [gate |-> "none", perms |-> <<>>,
             handler |-> "checkUserPermission"]
       [] r = "POST /" ->
            [gate |-> "requirePermission", perms |-> <<"manage_roles">>,
             handler |-> "createRole"]
       [] r = "GET /" ->
            [gate |-> "requirePermission", perms |-> <<"manage_roles">>,
             handler |-> "getRoles"]
       [] r = "GET /:id" ->
            [gate |-> "requirePermission", perms |-> <<"manage_roles">>,
             handler |-> "getRoleById"]
       [] r = "PUT /:id" ->
            [gate |-> "requirePermission", perms |-> <<"manage_roles">>,
             handler |-> "updateRole"]
       [] r = "DELETE /:id" ->
            [gate |-> "requirePermission", perms |-> <<"manage_roles">>,
             handler |-> "deleteRole"]
       [] r = "GET /multi-permission" ->
            [gate |-> "requirePermission",
             perms |-> <<"view_hotels", "view_rooms">>,
             handler |-> "multiPermission"]]

\* the tokens a client puts in the path of GET /check-permission/:perm
PathTokens == {"view_hotels", "manage_hotels", "fly"}

\* messages of the 401 responses of verifyToken
M_tokenRequired == "Access token is required"
M_invalidToken  == "Invalid token"
M_tokenExpired  == "Token has expired"
M_authFailed    == "Authentication failed"
M_userNotFound  == "User not found"
M_notActive     == "User account is not active"
\* messages of the gates
M_insufficient  == "Insufficient permissions"
M_checkError    == "Error checking permissions"

\* faulty variant of authError: the status of the identity is not looked at
authError_noStatusCheck(cred, us, inactive, dbUp) ==
  IF cred.kind \in {"absent", "notBearer"} THEN M_tokenRequired
  ELSE IF cred.kind = "emptyToken" THEN M_tokenRequired
  ELSE IF cred.kind = "badSignature" THEN M_invalidToken
  ELSE IF cred.kind = "expired" THEN M_tokenExpired
  ELSE IF ~dbUp THEN M_authFailed
  ELSE IF cred.userId \notin DOMAIN us THEN M_userNotFound
  ELSE None

\* the 401 message verifyToken answers with, None if it calls next; dbUp
\* tells whether User.findById returns
authError(cred, us, inactive, dbUp) ==
  IF cred.kind \in {"absent", "notBearer"} THEN M_tokenRequired
  ELSE IF cred.kind = "emptyToken" THEN M_tokenRequired
  ELSE IF cred.kind = "badSignature" THEN M_invalidToken
  ELSE IF cred.kind = "expired" THEN M_tokenExpired
  ELSE IF ~dbUp THEN M_authFailed
  ELSE IF cred.userId \notin DOMAIN us THEN M_userNotFound
  ELSE IF cred.userId \in inactive THEN M_notActive
  ELSE None

\* a response: status and message
Reply(status, message) == [status |-> status, message |-> message]

\* faulty variant of verifyToken: req.user carries the role of the token's
\* payload
verifyToken_tokenRole(route, perm, cred, dbUp) ==
  LET msg == authError(cred, users, inactiveUsers, dbUp)
      arrived == [NoRequest EXCEPT !.route = route, !.perm = perm, !.cred = cred]
  IN
  /\ booted
  /\ req.stage \in {"none", "closed"}
  /\ req' = IF msg # None
            THEN [arrived EXCEPT !.stage = "closed",
                                 !.replies = <<Reply(Unauthorized, msg)>>]
            ELSE [arrived EXCEPT !.stage = "routed",
                                 !.user = [userId |-> cred.userId,
                                           email |-> EmailOf[cred.userId],
                                           role |-> cred.role],
                                 !.passed = <<"verifyToken">>]
  /\ UNCHANGED <<roles, users, booted, last, inactiveUsers, limiter, tasks>>

\* a request arrives on route (perm is the token in its path, None on the
\* routes without one) and verifyToken runs
verifyToken(route, perm, cred, dbUp) ==
  LET msg == authError(cred, users, inactiveUsers, dbUp)
      arrived == [NoRequest EXCEPT !.route = route, !.perm = perm, !.cred = cred]
  IN
  /\ booted
  /\ req.stage \in {"none", "closed"}
  /\ req' = IF msg # None
            THEN [arrived EXCEPT !.stage = "closed",
                                 !.replies = <<Reply(Unauthorized, msg)>>]
            ELSE [arrived EXCEPT !.stage = "routed",
                                 !.user = [userId |-> cred.userId,
                                           email |-> EmailOf[cred.userId],
                                           role |-> users[cred.userId]],
                                 !.passed = <<"verifyToken">>]
  /\ UNCHANGED <<roles, users, booted, last, inactiveUsers, limiter, tasks>>

\* requireRole(roles) on the request
requireRole(allowed) ==
  /\ req' = IF req.user = NoUser
            THEN [req EXCEPT !.stage = "closed",
                    !.replies = Append(@, Reply(Unauthorized, "Authentication required"))]
            ELSE IF req.user.role \notin allowed
            THEN [req EXCEPT !.stage = "closed",
                    !.replies = Append(@, Reply(Forbidden, M_insufficient))]
            ELSE [req EXCEPT !.stage = "handler",
                    !.passed = Append(@, "requireAdmin")]
  /\ UNCHANGED <<roles, users, booted, last, inactiveUsers, limiter, tasks>>

\* requireAdmin in front of POST /initialize
requireAdmin ==
  /\ req.stage = "routed"
  /\ Routes[req.route].gate = "requireAdmin"
  /\ requireRole({"admin"})


\* the changes the steps of the gate and of the handlers leave alone
Stores == <<roles, users, booted, last, inactiveUsers, limiter, tasks>>

\* requirePermission(perms), up to the race: req.user is there, the module
\* is imported, one hasPermission call per permission is started and the
\* 5-second timer is set
requirePermission ==
  /\ req.stage = "routed"
  /\ Routes[req.route].gate = "requirePermission"
  /\ req' = IF req.user = NoUser
            THEN [req EXCEPT !.stage = "closed",
                    !.replies = Append(@, Reply(Unauthorized, "Authentication required"))]
            ELSE [req EXCEPT !.stage = "gate",
                    !.checks = [i \in DOMAIN Routes[req.route].perms |-> "pending"],
                    !.timer = "armed", !.race = "pending"]
  /\ UNCHANGED Stores

\* faulty variant of Settle: a later event settles the race again
Settle_again(race, checks) ==
  IF \E i \in DOMAIN checks : checks[i] = "error" THEN "rejected"
  ELSE IF \A i \in DOMAIN checks : checks[i] \in {"true", "false"} THEN "resolved"
  ELSE race

\* the state of Promise.race([Promise.all(checks), timer]) after one more
\* event: it settles once, by the first of a rejected check (Promise.all
\* rejects at once), the last check resolving, and the timer
Settle(race, checks) ==
  IF race # "pending" THEN race
  ELSE IF \E i \in DOMAIN checks : checks[i] = "error" THEN "rejected"
  ELSE IF \A i \in DOMAIN checks : checks[i] \in {"true", "false"} THEN "resolved"
  ELSE "pending"

\* the checks of a request go on after the race is settled and after the
\* response: nothing cancels them
Running == req.stage \in {"gate", "handler", "closed"}

\* req with check i in state v, and the race after that event
WithCheck(i, v) ==
  LET checks == [req.checks EXCEPT ![i] = v] IN
  [req EXCEPT !.checks = checks, !.race = Settle(@, checks)]

\* hasPermission of check i, first await: User.findById(userId); the check
\* resolves to false if there is no such identity, else it holds user.role
checkUser(i) ==
  /\ Running
  /\ i \in DOMAIN req.checks /\ req.checks[i] = "pending"
  /\ req' = IF req.user.userId \notin DOMAIN users
            THEN WithCheck(i, "false")
            ELSE WithCheck(i, users[req.user.userId])
  /\ UNCHANGED Stores

\* hasPermission of check i, second await: getRolePermissions(user.role),
\* then permissions.includes(permission)
checkRole(i) ==
  /\ Running
  /\ i \in DOMAIN req.checks
  /\ req.checks[i] \notin {"pending", "true", "false", "error"}
  /\ req' = WithCheck(i,
              IF Routes[req.route].perms[i]
                   \in getRolePermissions(roles, req.checks[i])
              THEN "true" ELSE "false")
  /\ UNCHANGED Stores

\* one of the two store reads of check i throws (the store is unreachable)
checkThrow(i) ==
  /\ Running
  /\ i \in DOMAIN req.checks
  /\ req.checks[i] \notin {"true", "false", "error"}
  /\ req' = WithCheck(i, "error")
  /\ UNCHANGED Stores

\* the 5-second timer fires: it resolves the race with false if the race is
\* not settled, and has no effect otherwise
timerFires ==
  /\ req.timer = "armed"
  /\ req' = [req EXCEPT !.timer = "fired",
                        !.race = IF @ = "pending" THEN "timeout" ELSE @]
  /\ UNCHANGED Stores

\* faulty variant of gateResponds: a request is let through only if every
\* permission check is true
gateResponds_every ==
  /\ req.stage = "gate"
  /\ req.race # "pending"
  /\ req' = IF req.race = "rejected"
            THEN [req EXCEPT !.stage = "closed",
                    !.replies = Append(@, Reply(InternalError, M_checkError))]
            ELSE LET hasAnyPermission ==
                       IF req.race = "resolved"
                       THEN \A i \in DOMAIN req.checks : req.checks[i] = "true"
                       ELSE FALSE
                 IN IF ~hasAnyPermission
                    THEN [req EXCEPT !.stage = "closed",
                            !.replies = Append(@, Reply(Forbidden, M_insufficient))]
                    ELSE [req EXCEPT !.stage = "handler",
                            !.passed = Append(@, "requirePermission")]
  /\ UNCHANGED Stores

\* faulty variant of gateResponds: a check that threw counts as a denial
gateResponds_errorDenied ==
  /\ req.stage = "gate"
  /\ req.race # "pending"
  /\ req' = LET hasAnyPermission ==
                  IF req.race = "resolved"
                  THEN \E i \in DOMAIN req.checks : req.checks[i] = "true"
                  ELSE FALSE
            IN IF ~hasAnyPermission
               THEN [req EXCEPT !.stage = "closed",
                       !.replies = Append(@, Reply(Forbidden, M_insufficient))]
               ELSE [req EXCEPT !.stage = "handler",
                       !.passed = Append(@, "requirePermission")]
  /\ UNCHANGED Stores

\* requirePermission after the race: the array of the checks gives
\* some(Boolean), the timer gives false; false is answered with 403, a
\* rejection with 500, and otherwise next is called
gateResponds ==
  /\ req.stage = "gate"
  /\ req.race # "pending"
  /\ req' = IF req.race = "rejected"
            THEN [req EXCEPT !.stage = "closed",
                    !.replies = Append(@, Reply(InternalError, M_checkError))]
            ELSE LET hasAnyPermission ==
                       IF req.race = "resolved"
                       THEN \E i \in DOMAIN req.checks : req.checks[i] = "true"
                       ELSE FALSE
                 IN IF ~hasAnyPermission
                    THEN [req EXCEPT !.stage = "closed",
                            !.replies = Append(@, Reply(Forbidden, M_insufficient))]
                    ELSE [req EXCEPT !.stage = "handler",
                            !.passed = Append(@, "requirePermission")]
  /\ UNCHANGED Stores

\* the value of a key that an object does not have
Undefined == "undefined"

\* req.params of GET /check-permission/:perm: the only key is perm
Params(key) == IF key = "perm" THEN req.perm ELSE Undefined

\* RoleController.checkUserPermission: permission is req.params.permission
checkUserPermission ==
  /\ \/ req.stage = "handler"
     \/ req.stage = "routed" /\ Routes[req.route].gate = "none"
  /\ Routes[req.route].handler = "checkUserPermission"
  /\ LET permission == Params("permission")
         userId == req.user.userId
     IN
     req' = IF userId = None
            THEN [req EXCEPT !.stage = "closed",
                    !.handler = "checkUserPermission",
                    !.replies = Append(@, Reply(Unauthorized, "User not authenticated"))]
            ELSE [req EXCEPT !.stage = "closed",
                    !.handler = "checkUserPermission",
                    !.replies = Append(@, Reply(Ok, "Permission check completed")),
                    !.data = [userId |-> userId, permission |-> permission,
                              hasPermission |->
                                hasPermission(roles, users, userId, permission)]]
  /\ UNCHANGED Stores

\* faulty variant of dispatch: the controller method is also called for a
\* request that has not been through the middleware of its route
dispatch_ungated ==
  /\ req.stage \in {"routed", "handler"}
  /\ Routes[req.route].handler # "checkUserPermission"
  /\ req' = [req EXCEPT !.stage = "closed",
                        !.handler = Routes[req.route].handler]
  /\ UNCHANGED Stores

\* the router calls the controller method of the route (those methods are
\* the service calls above)
dispatch ==
  /\ req.stage = "handler"
  /\ Routes[req.route].handler # "checkUserPermission"
  /\ req' = [req EXCEPT !.stage = "closed",
                        !.handler = Routes[req.route].handler]
  /\ UNCHANGED Stores

\* the status field of an identity is changed (by whoever administers the
\* accounts)
setStatus(u) ==
  /\ booted
  /\ u \in DOMAIN users
  /\ inactiveUsers' = IF u \in inactiveUsers THEN inactiveUsers \ {u}
                      ELSE inactiveUsers \cup {u}
  /\ UNCHANGED <<roles, users, booted, last, req, limiter, tasks>>

(***************************************************************************)
(* AuthMiddleware.rateLimitAuth: middlewares/authMiddleware.ts, the one    *)
(* the authentication routes import, and the copy with the account key    *)
(* and the sweep that follows the error handlers in errorHandler.ts       *)
(***************************************************************************)
\* the Map: a set of entries, at most one for a key
Has(map, key) == \E e \in map : e.key = key
Get(map, key) == CHOOSE e \in map : e.key = key
Set(map, key, count, resetTime) ==
  {e \in map : e.key # key}
    \cup {[key |-> key, count |-> count, resetTime |-> resetTime]}

\* Math.ceil(ms / (1000 * 60)), for ms >= 0
CeilMinutes(ms) == (ms + (1000 * 60) - 1) \div (1000 * 60)

\* the body of the returned middleware on the entry of `key` at time t:
\* the map afterwards, whether next() is called, and the status sent if not
limit_countFromZero(map, key, t, maxAttempts, windowMs) ==
  IF ~Has(map, key) \/ t > Get(map, key).resetTime
  THEN [map |-> Set(map, key, 0, t + windowMs), next |-> TRUE,
        status |-> Ok, minutes |-> 0]
  ELSE LET userAttempts == Get(map, key) IN
       IF userAttempts.count >= maxAttempts
       THEN [map |-> map, next |-> FALSE, status |-> TooManyRequests,
             minutes |-> CeilMinutes(userAttempts.resetTime - t)]
       ELSE [map |-> Set(map, key, userAttempts.count + 1,
                         userAttempts.resetTime),
             next |-> TRUE, status |-> Ok, minutes |-> 0]

limit(map, key, t, maxAttempts, windowMs) ==
  IF ~Has(map, key) \/ t > Get(map, key).resetTime
  THEN [map |-> Set(map, key, 1, t + windowMs), next |-> TRUE,
        status |-> Ok, minutes |-> 0]
  ELSE LET userAttempts == Get(map, key) IN
       IF userAttempts.count >= maxAttempts
       THEN [map |-> map, next |-> FALSE, status |-> TooManyRequests,
             minutes |-> CeilMinutes(userAttempts.resetTime - t)]
       ELSE [map |-> Set(map, key, userAttempts.count + 1,
                         userAttempts.resetTime),
             next |-> TRUE, status |-> Ok, minutes |-> 0]

\* authMiddleware.ts: the key is the caller's address
AddressKey(ip, email) == ip

\* errorHandler.ts: the key is `${ip}:${email}`
AccountKey(ip, email) == ip \o ":" \o email

Verdict(ip, email, key, out) ==
  [ip |-> ip, email |-> email, key |-> key, status |-> out.status,
   next |-> out.next, minutes |-> out.minutes]

\* the middleware of authMiddleware.ts on one request; its 429 carries no
\* remaining time
rateLimitAuth(maxAttempts, windowMs, ip, email) ==
  LET key == AddressKey(ip, email)
      out == limit(attempts, key, now, maxAttempts, windowMs)
  IN /\ attempts' = out.map
     /\ rl' = Verdict(ip, email, key, [out EXCEPT !.minutes = 0])
     /\ UNCHANGED <<roles, users, booted, last, inactiveUsers, req, tasks, now>>

\* the middleware of errorHandler.ts on one request
rateLimitAccount(maxAttempts, windowMs, ip, email) ==
  LET key == AccountKey(ip, email)
      out == limit(attempts, key, now, maxAttempts, windowMs)
  IN /\ attempts' = out.map
     /\ rl' = Verdict(ip, email, key, out)
     /\ UNCHANGED <<roles, users, booted, last, inactiveUsers, req, tasks, now>>

\* the setInterval callback of errorHandler.ts
Swept_atResetTime(map, t) == {e \in map : ~(t >= e.resetTime)}

Swept(map, t) == {e \in map : ~(t > e.resetTime)}

sweep ==
  /\ attempts' = Swept(attempts, now)
  /\ UNCHANGED <<roles, users, booted, last, inactiveUsers, req, tasks, now, rl>>
  /\ UNCHANGED <<seen, passes, unswept>>

\* time passes
tick ==
  /\ now < MaxTicks * Tick
  /\ now' = now + Tick
  /\ UNCHANGED <<roles, users, booted, last, inactiveUsers, req, tasks, attempts,
                 rl>>
  /\ UNCHANGED <<seen, passes, unswept>>

create == \E n \in RoleNames, p \in PermBundles, by \in Creators :
            createRole(n, p, by)
update == \E id \in RoleIds, patch \in Patches, by \in Updaters :
            updateRole(id, patch, by)
delete == \E id \in RoleIds : deleteRole(id)
assign == \E u \in UserInputs, n \in RoleNames, by \in UserInputs :
            assignRoleToUser(u, n, by)
bulkAssign == \E l \in BulkLists, n \in RoleNames, by \in UserInputs :
                bulkAssignRole(l, n, by)
\* assignments requested by the first seed identity
assignByU1 == \E u \in UserInputs, n \in RoleNames :
                assignRoleToUser(u, n, "U1")
login == \E g \in GoogleUsers : googleLogin(g)
edit == \E n \in USER_ROLE, p \in PermBundles : handEdit(n, p)

\* the role service behind a running server
Next ==
  \/ initializeSystemRoles
  \/ create
  \/ update
  \/ delete
  \/ assign
  \/ bulkAssign

Spec == Init /\ [][Next]_vars

\* server restarts and direct edits of the system roles
NextSeed ==
  \/ initializeSystemRoles
  \/ edit
  \/ create
  \/ delete

SpecSeed == Init /\ [][NextSeed]_vars

\* identities that arrive by Google login, and the roles they hold
NextLogin ==
  \/ initializeSystemRoles
  \/ login
  \/ create
  \/ delete
  \/ assignByU1

\* one administrator and one student to start with
InitLogin ==
  /\ Init
  /\ users = [u \in SeedUsers |-> IF u = "U1" THEN "admin" ELSE "student"]

SpecLogin == InitLogin /\ [][NextLogin]_vars

\* the management of role documents: the calls that write the role store,
\* with the identities that arrive by Google login
NextManage ==
  \/ initializeSystemRoles
  \/ login
  \/ create
  \/ update
  \/ delete

SpecManage == InitLogin /\ [][NextManage]_vars

\* a PUT /role/:id whose body is { isActive: false }
deactivate ==
  \E id \in RoleIds, by \in Updaters :
    updateRole(id, [fields |-> {"isActive"}, permissions |-> {},
                    isActive |-> FALSE], by)

\* assignments, single and bulk, over a store in which custom roles are
\* created, deactivated and deleted
NextAssign ==
  \/ initializeSystemRoles
  \/ create
  \/ deactivate
  \/ delete
  \/ assign
  \/ bulkAssign

SpecAssign == Init /\ [][NextAssign]_vars

\* POST /api/role with bodies of every kind, among updates, deletes and
\* first logins
submit == \E body \in Bodies, by \in Creators : createRoleHandler(body, by)

NextSubmit ==
  \/ initializeSystemRoles
  \/ submit
  \/ update
  \/ delete
  \/ login

SpecSubmit == InitLogin /\ [][NextSubmit]_vars

\* server instances that start on one database, and createRole calls that
\* arrive while others are in progress
NextRace ==
  \/ \E t \in Tasks : seedFind(t)
  \/ \E t \in Tasks : seedSave(t)
  \/ \E t \in Tasks, n \in RoleNames, p \in PermBundles, by \in Creators :
       createFind(t, n, p, by)
  \/ \E t \in Tasks : createSave(t)
  \/ \E t \in Tasks : return(t)

SpecRace == InitLogin /\ [][NextRace]_vars

\* one caller creates and deletes custom roles while the assignments of
\* another are in progress, on a running server
NextRetire ==
  \/ initializeSystemRoles
  \/ \E n \in CustomNames, p \in PermBundles, by \in Creators :
       createFind(1, n, p, by)
  \/ createSave(1)
  \/ \E id \in RoleIds : deleteFind(1, id)
  \/ deleteCount(1)
  \/ deleteRemove(1)
  \/ \E u \in UserInputs, n \in RoleNames, by \in SeedUsers :
       assignUser(2, u, n, by)
  \/ \E l \in BulkLists, n \in RoleNames, by \in SeedUsers :
       assignRole(2, l, n, by)
  \/ assignCheck(2)
  \/ bulkFind(2)
  \/ assignWrite(2)
  \/ \E t \in Tasks : return(t)

SpecRetire == InitLogin /\ [][NextRetire]_vars

\* an administrator and a teacher to start with
InitDemote ==
  /\ Init
  /\ users = [u \in SeedUsers |-> IF u = "U1" THEN "admin" ELSE "teacher"]

\* the teacher is the only one to assign, over a store in which custom
\* roles are created, deactivated and deleted
NextDemote ==
  \/ initializeSystemRoles
  \/ create
  \/ deactivate
  \/ delete
  \/ \E u \in UserInputs, n \in RoleNames : assignRoleToUser(u, n, "U2")
  \/ \E l \in BulkLists, n \in RoleNames : bulkAssignRole(l, n, "U2")

SpecDemote == InitDemote /\ [][NextDemote]_vars

\* the routes of the role router
RoleRoutes == DOMAIN Routes \ {"GET /multi-permission"}

\* a request on the role router, with any Authorization header; dbUp matters
\* only if the token verifies
arrive ==
  \E route \in RoleRoutes, cred \in Credentials :
    \E perm \in IF route = "GET /check-permission/:perm"
                THEN PathTokens ELSE {None},
       dbUp \in IF cred.kind = "valid" THEN BOOLEAN ELSE {TRUE} :
      verifyToken(route, perm, cred, dbUp)
\* a request with a token that verifies, on two routes behind
\* requirePermission: one permission, and a list of two
arriveAtGate ==
  \E route \in {"GET /users/:name", "GET /multi-permission"},
     u \in SeedUsers :
    verifyToken(route, None,
                [kind |-> "valid", userId |-> u, role |-> TokenRole[u]], TRUE)
readUser == \E i \in DOMAIN req.checks : checkUser(i)
readRole == \E i \in DOMAIN req.checks : checkRole(i)
readFails == \E i \in DOMAIN req.checks : checkThrow(i)
\* the administrator U1 gives U2 another system role
regrade == \E n \in USER_ROLE : assignRoleToUser("U2", n, "U1")
changeStatus == \E u \in SeedUsers : setStatus(u)
\* the student role is cut down to view_hotels and view_bookings
editStudent == handEdit("student", {"view_hotels", "view_bookings"})

\* the role router in front of the role service, while roles and account
\* statuses change
NextRouter ==
  \/ initializeSystemRoles
  \/ arrive
  \/ requireAdmin
  \/ requirePermission
  \/ readUser
  \/ readRole
  \/ readFails
  \/ timerFires
  \/ gateResponds
  \/ checkUserPermission
  \/ dispatch
  \/ regrade
  \/ changeStatus

SpecRouter == InitLogin /\ [][NextRouter]_vars

\* the require-permission gate: its checks, its timer and its response,
\* while roles and permissions change
NextGate ==
  \/ initializeSystemRoles
  \/ arriveAtGate
  \/ requirePermission
  \/ readUser
  \/ readRole
  \/ readFails
  \/ timerFires
  \/ gateResponds
  \/ dispatch
  \/ regrade
  \/ editStudent

SpecGate == InitLogin /\ [][NextGate]_vars

\* the same, with the event loop doing its part: a timer that is set fires,
\* and the function waiting on a settled race goes on
SpecGateLive ==
  SpecGate /\ WF_vars(timerFires) /\ WF_vars(gateResponds)

\* the window of one (address, email) pair as a caller counts it: it opens
\* with the pair's first request and lasts windowMs; n is the number of the
\* pair's requests in it, counted up to cap
Watched(w, t, windowMs, cap) ==
  IF w.n = 0 \/ t > w.until
  THEN [n |-> 1, until |-> t + windowMs]
  ELSE [w EXCEPT !.n = IF w.n < cap THEN w.n + 1 ELSE w.n]

\* POST /login as authRoutes.ts wires it, with the callers' own counting
loginRequest ==
  \E ip \in Addresses, email \in Emails :
    /\ <<ip, email>> \in Pairs
    /\ rateLimitAuth(LoginMaxAttempts, LoginWindowMs, ip, email)
    /\ seen' = [seen EXCEPT ![<<ip, email>>] =
                  Watched(@, now, LoginWindowMs, LoginMaxAttempts + 1)]
    /\ UNCHANGED <<passes, unswept>>

NextLimit ==
  \/ tick
  \/ loginRequest

SpecLimit == InitLogin /\ [][NextLimit]_vars

\* the callers whose requests are logged: two accounts behind one address
Logged == {<<"10.0.0.1", "a@x.io">>, <<"10.0.0.1", "b@x.io">>}

\* POST /login with a log of when each pair's requests were passed on
loggedRequest ==
  \E ip \in Addresses, email \in Emails :
    /\ <<ip, email>> \in Logged
    /\ rateLimitAuth(LoginMaxAttempts, LoginWindowMs, ip, email)
    /\ passes' = IF rl'.next
                  THEN [passes EXCEPT ![<<ip, email>>][now \div Tick] = @ + 1]
                  ELSE passes
    /\ UNCHANGED <<seen, unswept>>

NextWindow ==
  \/ tick
  \/ loggedRequest

SpecWindow == InitLogin /\ [][NextWindow]_vars

\* POST /login behind the limiter of errorHandler.ts, whose sweep may run at
\* any time; `unswept` receives the same requests and is never swept
sweptRequest ==
  \E ip \in Addresses, email \in Emails :
    /\ <<ip, email>> \in Pairs
    /\ rateLimitAccount(LoginMaxAttempts, LoginWindowMs, ip, email)
    /\ unswept' = limit(unswept, AccountKey(ip, email), now,
                        LoginMaxAttempts, LoginWindowMs).map
    /\ UNCHANGED <<seen, passes>>

NextSweep ==
  \/ tick
  \/ sweptRequest
  \/ sweep

SpecSweep == InitLogin /\ [][NextSweep]_vars

(***************************************************************************)
(* Properties                                                              *)
(***************************************************************************)
\* the role document a call names by id, in the state before the call
Target(id) == {r \in roles : r.id = id}

\* An error response does not echo the arguments of its call, so the
\* properties of calls are stated over the steps of the call's action.

\* C1: for every role name (in its stored, lowercase form) the effective
\* permission set is the permissions of the active role document of that
\* name if there is one, else the static table entry for a system role name,
\* else the empty set.
C1_EffectivePermissions ==
  /\ \A r \in roles :
       r.isActive => getRolePermissions(roles, r.name) = r.permissions
  /\ \A n \in USER_ROLE \cup CustomNames :
       (\A r \in roles : r.name = n => ~r.isActive) =>
          getRolePermissions(roles, n) =
            IF n \in USER_ROLE THEN ROLE_PERMISSIONS[n] ELSE {}

\* C1 witness: a custom role that was updated and is active, next to the
\* seeded system roles
C1_Witness ==
  \E r \in roles :
    /\ ~r.isSystem /\ r.isActive /\ r.updatedBy # None
    /\ getRolePermissions(roles, r.name) = {"manage_hotels"}

\* C2: when an identity whose role is admin assigns the active custom role
\* moderator (permissions view_hotels, view_bookings) to U1, the assignment
\* succeeds, U1 holds moderator, and U1 has view_hotels but not manage_hotels.
C2_ModeratorScenario ==
  [][ \A by \in DOMAIN users \ {"U1"} :
        ( /\ last'.op = "assignRoleToUser"
          /\ users[by] = "admin"
          /\ \E r \in roles : /\ r.name = "moderator" /\ r.isActive
                              /\ r.permissions = {"view_hotels", "view_bookings"}
          /\ assignRoleToUser("U1", "moderator", by) )
        => ( /\ last'.status = Ok
             /\ users'["U1"] = "moderator"
             /\ hasPermission(roles', users', "U1", "view_hotels")
             /\ ~hasPermission(roles', users', "U1", "manage_hotels") ) ]_vars

\* the roles an assigner can hold: a system role or a custom role
AssignerRoles == USER_ROLE \cup CustomNames

\* manageableRolesOf: the hierarchy entry, empty for a role outside the table
Manageable(a) == IF a \in USER_ROLE THEN ROLE_HIERARCHY[a] ELSE {}

\* the decision the hierarchy rule prescribes
Allowed(a, t) ==
  IF t \in USER_ROLE THEN t \in Manageable(a) \cup {a}
  ELSE a = "admin"

\* C3: an assignment that passes the existence checks is allowed exactly
\* when canAssignRole should hold: the target is a system role name in the
\* assigner's hierarchy entry or equal to the assigner's role, or the target
\* is a custom role name and the assigner is admin.
C3_CanAssignTable ==
  [][ \A u \in DOMAIN users, by \in DOMAIN users,
         n \in USER_ROLE \cup CustomNames :
        ( /\ last'.op = "assignRoleToUser"
          /\ users[by] \in AssignerRoles
          /\ \E r \in roles : r.name = n /\ r.isActive
          /\ assignRoleToUser(u, n, by) )
        => ( (last'.status = Ok) = Allowed(users[by], n) ) ]_vars

\* a step of assignRoleToUser(u, n, by) in which by's role is teacher and u
\* is an existing identity
TeacherAssigns(u, n, by) ==
  /\ last'.op = "assignRoleToUser"
  /\ by \in DOMAIN users /\ users[by] = "teacher"
  /\ u \in DOMAIN users
  /\ assignRoleToUser(u, n, by)

SystemDocs(store) == {r \in store : r.isSystem}

\* C5: once seeded, the documents with isSystem=true are exactly one each of
\* admin, teacher and student; createRole persists isSystem=false and
\* isActive=true, and no call changes the isSystem flag or the name of a
\* document or removes a system document.
C5_SystemRolesFixed ==
  /\ [](booted =>
          /\ {r.name : r \in SystemDocs(roles)} = USER_ROLE
          /\ Cardinality(SystemDocs(roles)) = Cardinality(USER_ROLE))
  /\ [][ /\ \A r \in roles, q \in roles' :
              q.id = r.id => q.name = r.name /\ q.isSystem = r.isSystem
         /\ \A r \in SystemDocs(roles) : \E q \in roles' : q.id = r.id
         /\ (last'.op = "createRole" /\ last'.status = Created) =>
              \E q \in roles' :
                 /\ q.id = last'.id /\ q \notin roles
                 /\ roles' = roles \cup {q}
                 /\ ~q.isSystem /\ q.isActive ]_vars

\* C5 witness: a custom role was created, then updated and deactivated,
\* next to the system roles
C5_Witness ==
  /\ last.op = "updateRole" /\ last.status = Ok
  /\ \E r \in roles : r.id = last.id /\ ~r.isSystem /\ ~r.isActive

\* the document an update with this patch leaves behind
Patched(r, patch, by) ==
  [id |-> r.id, name |-> r.name, isSystem |-> r.isSystem,
   createdBy |-> r.createdBy, updatedBy |-> by,
   permissions |-> IF "permissions" \in patch.fields
                   THEN patch.permissions ELSE r.permissions,
   isActive |-> IF "isActive" \in patch.fields
                THEN patch.isActive ELSE r.isActive]

\* C6: updateRole and deleteRole on a system role fail with Forbidden and
\* leave the store unchanged; on a custom role no identity holds, updateRole
\* applies the patch and stamps updatedBy, and deleteRole removes the
\* document.
C6_SystemRolesProtected ==
  [][ /\ last'.op = "updateRole" =>
          \A id \in RoleIds : \A r \in Target(id) :
            \A patch \in Patches, by \in Updaters :
              updateRole(id, patch, by) =>
                IF r.isSystem
                THEN last'.status = Forbidden /\ roles' = roles
                ELSE CountUsers(users, r.name) = 0 =>
                       /\ last'.status = Ok
                       /\ roles' = (roles \ {r}) \cup {Patched(r, patch, by)}
      /\ last'.op = "deleteRole" =>
          \A id \in RoleIds : \A r \in Target(id) :
            deleteRole(id) =>
              IF r.isSystem
              THEN last'.status = Forbidden /\ roles' = roles
              ELSE CountUsers(users, r.name) = 0 =>
                     /\ last'.status = Ok
                     /\ roles' = roles \ {r} ]_vars

\* C6 witness: a delete of a system role was refused
C6_Witness ==
  /\ last.op = "deleteRole" /\ last.status = Forbidden
  /\ last.error = E_sysDelete

\* C7: after any number of runs of initializeSystemRoles from an empty store
\* there are exactly three system role documents, and a run leaves every
\* document that exists as it is (edited permissions included).
C7_SeedIdempotent ==
  /\ [](booted =>
          /\ Cardinality(SystemDocs(roles)) = 3
          /\ \A n \in USER_ROLE :
               Cardinality({r \in roles : r.name = n}) = 1)
  /\ [][ last'.op = "initializeSystemRoles" => roles \subseteq roles' ]_vars

\* C7 witness: a run has completed over a store in which a system role
\* carries edited permissions
C7_Witness ==
  /\ last.op = "initializeSystemRoles"
  /\ \E r \in roles : r.isSystem /\ r.permissions # ROLE_PERMISSIONS[r.name]

\* C8: createRole with a name that equals an existing role's name, compared
\* without regard to case, fails with Conflict and adds no document.
C8_DuplicateNameConflict ==
  [][ \A n \in RoleNames, p \in PermBundles, by \in Creators :
        ( /\ last'.op = "createRole"
          /\ \E r \in roles : r.name = Lower(n)
          /\ createRole(n, p, by) )
        => ( last'.status = Conflict /\ roles' = roles ) ]_vars

\* C8 witness: a createRole was refused while the store holds the system
\* roles only
C8_Witness ==
  /\ last.op = "createRole" /\ last.status = Conflict
  /\ \A r \in roles : r.isSystem

C11_AssignNotFound ==
  [][ last'.op = "assignRoleToUser" =>
        \A u \in UserInputs, n \in RoleNames, by \in UserInputs :
          ( /\ \/ u \notin DOMAIN users
               \/ ~\E r \in roles : r.name = Lower(n) /\ r.isActive
            /\ assignRoleToUser(u, n, by) )
          => ( last'.status = NotFound /\ users' = users ) ]_vars

\* C11 witness: an assignment was refused for its role while the store
\* holds a deactivated custom role
C11_Witness ==
  /\ last.op = "assignRoleToUser" /\ last.status = NotFound
  /\ last.error = E_roleInactive
  /\ \E r \in roles : ~r.isSystem /\ ~r.isActive

\* the elements of a sequence
Range(q) == {q[i] : i \in DOMAIN q}

\* C12: bulkAssignRole never fails as a whole: for every input it answers
\* with {success, failed} in which every input id is in exactly one of the
\* two lists, every failing id carries a reason, and only the ids in success
\* had their role overwritten; two existing ids and one absent id give two
\* successes and one failure attributed to the absent id.
C12_BulkNeverFails ==
  [][ last'.op = "bulkAssignRole" =>
        \A l \in BulkLists, n \in RoleNames, by \in UserInputs :
          bulkAssignRole(l, n, by) =>
            LET ok == Range(last'.success)
                ko == {f.userId : f \in Range(last'.failed)}
            IN
            /\ last'.status = Ok
            /\ ok \cup ko = Range(l) /\ ok \cap ko = {}
            /\ \A f \in Range(last'.failed) : f.error # None
            /\ \A u \in DOMAIN users :
                 users'[u] = IF u \in ok THEN n ELSE users[u]
            /\ l = <<"U2", GhostUser, "U1">> =>
                 /\ Len(last'.success) = 2
                 /\ last'.failed =
                      <<[userId |-> GhostUser, error |-> E_userNotFound]>> ]_vars

RECURSIVE AssignEach(_, _, _, _, _)
\* assignRoleToUser called for userIds[i..] one id at a time, each call
\* completing before the next starts; acc carries the user store and the
\* ids whose call succeeded
AssignEach(userIds, i, roleName, assignedBy, acc) ==
  IF i > Len(userIds) THEN acc
  ELSE LET userId == userIds[i] IN
       IF assignError(roles, acc.users, userId, roleName, assignedBy) = None
       THEN AssignEach(userIds, i + 1, roleName, assignedBy,
                       [users |-> [acc.users EXCEPT ![userId] = roleName],
                        success |-> Append(acc.success, userId)])
       ELSE AssignEach(userIds, i + 1, roleName, assignedBy, acc)

\* C13: in every state and for every input, bulkAssignRole(userIds,
\* roleName, assigner) leaves every identity with the role that
\* assignRoleToUser(id, roleName, assigner), called one id at a time in
\* input order, leaves it with, and its success list holds exactly the ids
\* whose single call succeeds (the assigner's role being read anew by every
\* single call, also when the assigner is in the batch).
C13_BulkIsSequentialAssign ==
  booted =>
    \A l \in BulkLists, n \in RoleNames, by \in UserInputs :
      LET each == AssignEach(l, 1, n, by, [users |-> users, success |-> <<>>])
          bulk == bulkResult(roles, users, l, n, by)
      IN /\ bulk.users = each.users
         /\ bulk.success = each.success

\* C13 witness: the assigner U1 has bulk-assigned teacher to itself and to
\* U2, in that order
C13_Witness ==
  /\ last.op = "bulkAssignRole" /\ last.by = "U1" /\ last.name = "teacher"
  /\ last.success = <<"U1", "U2">> /\ last.failed = <<>>
  /\ users["U1"] = "teacher" /\ users["U2"] = "teacher"

GateAnswers == req.stage = "gate" /\ req'.stage # "gate"
\* the gate calls next in this step, and sends nothing
CallsNext ==
  /\ req'.passed = Append(req.passed, "requirePermission")
  /\ req'.stage = "handler"
  /\ req'.replies = req.replies
\* the gate sends the one response r in this step, and does not call next
Sends(r) ==
  /\ req'.replies = Append(req.replies, r)
  /\ req'.passed = req.passed
  /\ req'.stage = "closed"
\* every check of the request has resolved and the race was settled by
\* that (the race settles that way only while the timer has not fired)
ChecksDoneInTime ==
  /\ \A i \in DOMAIN req.checks : req.checks[i] \in {"true", "false"}
  /\ req.race = "resolved"

\* C15: the require-permission gate calls next exactly when the checks of
\* its permission list completed before the timeout and at least one of them
\* is true (OR, not AND); when every check is false it answers Forbidden and
\* does not call next.
C15_AnyPermissionPasses ==
  /\ [][ GateAnswers =>
           /\ CallsNext = ( /\ ChecksDoneInTime
                            /\ \E i \in DOMAIN req.checks : req.checks[i] = "true" )
           /\ ( /\ ChecksDoneInTime
                /\ \A i \in DOMAIN req.checks : req.checks[i] = "false" )
              => Sends(Reply(Forbidden, M_insufficient)) ]_vars
  /\ [][ (req.race # "resolved" /\ req'.race = "resolved") =>
           /\ req.race = "pending" /\ req.timer = "armed" /\ req'.timer = "armed"
           /\ \A i \in DOMAIN req'.checks : req'.checks[i] \in {"true", "false"} ]_vars

\* C15 witness: a request passed the gate of GET /multi-permission with the
\* first check true and the second false
C15_Witness ==
  /\ req.route = "GET /multi-permission"
  /\ req.checks = <<"true", "false">>
  /\ req.passed = <<"verifyToken", "requirePermission">>
  /\ req.handler = "multiPermission"

\* the number of times the require-permission gate called next for the
\* request
GateNexts ==
  Cardinality({i \in DOMAIN req.passed : req.passed[i] = "requirePermission"})

\* the timer fires in this step, before any check threw and before the last
\* check resolved
TimerFirst ==
  /\ req.stage = "gate"
  /\ req.timer = "armed" /\ req'.timer = "fired"
  /\ \A i \in DOMAIN req.checks : req.checks[i] # "error"
  /\ \E i \in DOMAIN req.checks : req.checks[i] \notin {"true", "false"}

\* C16: the permission checks race the 5-second timer.  If the timer fires
\* first the race is decided for good, the request is answered Forbidden and
\* next is never called for it, also when an abandoned check completes with
\* true afterwards; for every request that entered the gate at most one of
\* {next called, one error response sent} has happened, exactly one once the
\* gate has answered, and the gate does answer.
C16_TimeoutRace ==
  /\ [][ TimerFirst => req'.race = "timeout" ]_vars
  /\ [][ req.race = "timeout" => (req'.race = "timeout" \/ req'.timer = "off") ]_vars
  /\ []( (req.race = "timeout" /\ req.stage # "gate") =>
           /\ req.replies = <<Reply(Forbidden, M_insufficient)>>
           /\ GateNexts = 0
           /\ req.handler = None )
  /\ []( req.timer # "off" =>
           /\ GateNexts + Len(req.replies) <= 1
           /\ (req.stage # "gate") = (GateNexts + Len(req.replies) = 1) )
  /\ ( (req.stage = "gate") ~> (req.stage # "gate") )

\* C16 witness: the timer won, the request was answered Forbidden, and the
\* abandoned check has completed with true since
C16_Witness ==
  /\ req.race = "timeout" /\ req.timer = "fired" /\ req.stage = "closed"
  /\ req.checks = <<"true">>
  /\ req.replies = <<Reply(Forbidden, M_insufficient)>>
  /\ req.passed = <<"verifyToken">>

\* a check throws in this step while the request is in the gate and the
\* timer has not fired
ThrowsBeforeTimeout ==
  /\ req.stage = "gate"
  /\ req.timer = "armed" /\ req'.timer = "armed"
  /\ \E i \in DOMAIN req.checks :
       req.checks[i] # "error" /\ req'.checks[i] = "error"

\* C17: when a permission check fails with an infrastructure error before
\* the timeout fires, the gate answers InternalError (500), not Forbidden
\* (403), and does not call next.
C17_CheckErrorIs500 ==
  /\ [][ ThrowsBeforeTimeout => req'.race = "rejected" ]_vars
  /\ [][ (GateAnswers /\ req.race = "rejected") =>
           Sends(Reply(InternalError, M_checkError)) ]_vars
  /\ []( (req.race = "rejected" /\ req.stage # "gate") =>
           /\ req.replies = <<Reply(InternalError, M_checkError)>>
           /\ req.replies[1].status # Forbidden
           /\ GateNexts = 0
           /\ req.handler = None )

\* C17 witness: on GET /multi-permission one check was true and the other
\* threw before the timer fired; the request was answered 500
C17_Witness ==
  /\ req.route = "GET /multi-permission"
  /\ req.checks = <<"true", "error">>
  /\ req.timer = "armed" /\ req.stage = "closed"
  /\ req.replies = <<Reply(InternalError, M_checkError)>>

\* verifyToken has answered the request with 401 and this message, has
\* attached nothing and has not called next
Refused(r, message) ==
  /\ r.replies = <<Reply(Unauthorized, message)>>
  /\ r.user = NoUser
  /\ r.passed = <<>>
  /\ r.stage = "closed"

\* C18: verifyToken calls next only when the request carries a 'Bearer '
\* token that verifies and whose identity exists with status active, and it
\* has then attached {userId, email, role} of that identity; in every other
\* case (missing or malformed header, empty token, invalid signature,
\* expired token, unknown identity, inactive identity) it answers 401,
\* attaches nothing and does not call next; invalid and expired tokens get
\* different messages.
C18_Authenticate ==
  [][ (req.stage \in {"none", "closed"} /\ req'.timer = "off") =>
        \A dbUp \in BOOLEAN :
          verifyToken(req'.route, req'.perm, req'.cred, dbUp) =>
            LET cred == req'.cred
                good == /\ cred.kind = "valid"
                        /\ cred.userId \in DOMAIN users
                        /\ cred.userId \notin inactiveUsers
                next == req'.passed = <<"verifyToken">>
            IN
            /\ next => /\ good
                       /\ req'.replies = <<>>
                       /\ req'.user = [userId |-> cred.userId,
                                       email |-> EmailOf[cred.userId],
                                       role |-> users[cred.userId]]
            /\ (good /\ dbUp) => next
            /\ ~next => \E m \in {M_tokenRequired, M_invalidToken,
                                  M_tokenExpired, M_authFailed,
                                  M_userNotFound, M_notActive} :
                          Refused(req', m)
            /\ cred.kind \in {"absent", "notBearer", "emptyToken"} =>
                 Refused(req', M_tokenRequired)
            /\ cred.kind = "badSignature" => Refused(req', M_invalidToken)
            /\ cred.kind = "expired" => Refused(req', M_tokenExpired)
            /\ M_invalidToken # M_tokenExpired
            /\ (cred.kind = "valid" /\ cred.userId \notin DOMAIN users) =>
                 \E m \in {M_userNotFound, M_authFailed} : Refused(req', m)
            /\ (cred.kind = "valid" /\ cred.userId \in inactiveUsers) =>
                 \E m \in {M_notActive, M_authFailed} : Refused(req', m) ]_vars

\* C18 witness: a request whose token names an inactive identity was
\* refused
C18_Witness ==
  /\ req.cred.kind = "valid" /\ req.cred.userId \in inactiveUsers
  /\ Refused(req, M_notActive)

\* the request went through verifyToken with a token of the identity that
\* is attached to it
Authenticated ==
  /\ Len(req.passed) >= 1 /\ req.passed[1] = "verifyToken"
  /\ req.cred.kind = "valid"
  /\ req.user # NoUser /\ req.user.userId = req.cred.userId

\* the request went through requirePermission, and the hasPermission check
\* of permission p for its caller was true there
PassedCheck(p) ==
  /\ Len(req.passed) = 2 /\ req.passed[2] = "requirePermission"
  /\ \E i \in DOMAIN req.checks :
       Routes[req.route].perms[i] = p /\ req.checks[i] = "true"

\* C19: no request reaches a role handler without passing its gate.  The
\* handlers of POST /role, GET /role, GET/PUT/DELETE /role/:id and
\* GET /role/permissions/:name run only for an authenticated caller whose
\* manage_roles check was true at the gate; POST /role/assign and
\* /role/bulk-assign only with assign_roles; GET /role/users/:name only with
\* read_user; POST /role/initialize only when the role in the caller's
\* context is admin; GET /role/check-permission/:perm for any authenticated
\* caller.
C19_HandlersBehindGates ==
  (req.stage = "handler" \/ req.handler # None) =>
    /\ Authenticated
    /\ req.route \in {"POST /", "GET /", "GET /:id", "PUT /:id", "DELETE /:id",
                      "GET /permissions/:name"} => PassedCheck("manage_roles")
    /\ req.route \in {"POST /assign", "POST /bulk-assign"} =>
         PassedCheck("assign_roles")
    /\ req.route = "GET /users/:name" => PassedCheck("read_user")
    /\ req.route = "POST /initialize" =>
         /\ req.user.role = "admin"
         /\ req.passed = <<"verifyToken", "requireAdmin">>

\* C19 witness: the handler of DELETE /role/:id ran for U2, whose
\* manage_roles check was true at the gate and who is a student by now
C19_Witness ==
  /\ req.route = "DELETE /:id" /\ req.handler = "deleteRole"
  /\ req.user.userId = "U2" /\ req.checks = <<"true">>
  /\ users["U2"] = "student"

\* C20: GET /role/check-permission/:perm called by an authenticated identity
\* answers {userId, permission, hasPermission} in which permission is the
\* token given in the path and hasPermission is hasPermission(caller, that
\* token): true for the tokens in the caller's effective permission set and
\* false for every other token.
C20_CheckPermissionEcho ==
  [][ (req.handler = None /\ req'.handler = "checkUserPermission") =>
        /\ req'.replies = <<Reply(Ok, "Permission check completed")>>
        /\ req'.data.userId = req.user.userId
        /\ req'.data.permission = req.perm
        /\ req'.data.hasPermission =
             hasPermission(roles, users, req.user.userId, req.perm)
        /\ req'.data.hasPermission =
             (req.perm \in getRolePermissions(roles, users[req.user.userId])) ]_vars

\* C21: on POST /login (maxAttempts 5), of the requests of one (address,
\* email) pair within one window the 1st to 5th are passed on and the 6th
\* and later are answered 429 and not passed on; the pair's first request
\* after its window has elapsed is passed on and sets the count to 1.
C21_FiveThenRejected ==
  rl.status # 0 =>
    LET w == seen[<<rl.ip, rl.email>>] IN
      /\ w.n <= LoginMaxAttempts => rl.next
      /\ w.n > LoginMaxAttempts =>
           ~rl.next /\ rl.status = TooManyRequests
      /\ w.n = 1 =>
           /\ Has(attempts, rl.key)
           /\ Get(attempts, rl.key).count = 1

\* the entry that POST /login consults for the requests of pair q
Counter(map, q) ==
  LET key == AddressKey(q[1], q[2]) IN
    IF Has(map, key) THEN Get(map, key)
    ELSE [key |-> key, count |-> 0, resetTime |-> 0]

\* C22: the counter is keyed by (address, email): a request of one pair
\* changes neither the count nor the reset time that another pair's
\* requests are judged by, be it the same address under another email or
\* the same email from another address.
C22_KeyedByPair ==
  [][\A q \in Pairs :
       q # <<rl'.ip, rl'.email>> =>
         Counter(attempts', q) = Counter(attempts, q)]_vars

RECURSIVE PassedIn(_, _, _)
\* how many requests of pair p were passed on at the times from..to
PassedIn(p, from, to) ==
  IF from > to THEN 0
  ELSE (IF from \in DOMAIN passes[p] THEN passes[p][from] ELSE 0)
         + PassedIn(p, from + 1, to)

WindowTicks == LoginWindowMs \div Tick

\* C23 as stated: a sliding window.  In every interval of the length of the
\* window (15 minutes), wherever it starts, at most maxAttempts (5) requests
\* of one key are passed on.
C23_SlidingWindow ==
  \A p \in Pairs : \A start \in 0..MaxTicks :
    PassedIn(p, start, start + WindowTicks - 1) <= LoginMaxAttempts

\* C23 as amended: a fixed window.  From the request that opens a key's
\* window (it finds no entry or an elapsed one) to that window's reset time
\* at most maxAttempts requests of the key are passed on.
C23_FixedWindow ==
  \A p \in Pairs :
    LET entry == Counter(attempts, p)
        reset == entry.resetTime \div Tick
    IN entry.count > 0 =>
         PassedIn(p, reset - WindowTicks, reset) <= LoginMaxAttempts

\* a key has used up its window and was refused
C23_Witness ==
  /\ rl.status = TooManyRequests
  /\ LET p == <<rl.ip, rl.email>>
         reset == Counter(attempts, p).resetTime \div Tick
     IN PassedIn(p, reset - WindowTicks, reset) = LoginMaxAttempts

\* a proper subset
Within(A, B) == A \subseteq B /\ A # B

\* C24: the static table is non-empty for the three system roles and
\* strictly nested, student within teacher within admin; right after
\* initializeSystemRoles has seeded an empty store, getRolePermissions
\* returns exactly the table's set for each system role, and an identity
\* whose role is student holds view_hotels and does not hold manage_hotels.
C24_NestedSystemPermissions ==
  [][(roles = {} /\ last'.op = "initializeSystemRoles") =>
       /\ \A r \in USER_ROLE :
            /\ getRolePermissions(roles', r) # {}
            /\ getRolePermissions(roles', r) = ROLE_PERMISSIONS[r]
       /\ Within(getRolePermissions(roles', "student"),
                 getRolePermissions(roles', "teacher"))
       /\ Within(getRolePermissions(roles', "teacher"),
                 getRolePermissions(roles', "admin"))
       /\ \A u \in DOMAIN users' :
            users'[u] = "student" =>
              /\ hasPermission(roles', users', u, "view_hotels")
              /\ ~hasPermission(roles', users', u, "manage_hotels")]_vars

\* C24 witness: the store has just been seeded, the three documents are
\* active and carry nested sets, and there is a student to ask about
C24_Witness ==
  /\ last.op = "initializeSystemRoles"
  /\ \A r \in USER_ROLE :
       /\ ActiveByName(roles, r) # {}
       /\ getRolePermissions(roles, r) = ROLE_PERMISSIONS[r]
  /\ \E u \in DOMAIN users :
       users[u] = "student" /\ hasPermission(roles, users, u, "view_hotels")

BadRequest == 400

\* C25: a createRole request whose body fails validation (a name that is not
\* lowercase, an empty permissions list) is answered 400 with the fields at
\* fault, and no document of the role store and no identity changes.
C25_ValidationError ==
  [][\A body \in Bodies, by \in Creators :
       (createRoleIssues(body) # {} /\ createRoleHandler(body, by)) =>
          /\ last'.status = BadRequest
          /\ roles' = roles /\ users' = users]_vars

\* C26: of two createRole calls with the same name whose existence check
\* and insert interleave, one fails with 'already exists' (Conflict) and at
\* most one document carries the name; and once initializeSystemRoles has
\* completed, however many runs overlap, there is exactly one document for
\* each system role.
C26_UniqueUnderRace ==
  /\ \A n \in RoleNames : Cardinality(ByName(roles, n)) <= 1
  /\ \A t \in Tasks, o \in Tasks :
       (/\ t # o
        /\ tasks[t].op = "createRole" /\ tasks[t].pc = "done"
        /\ tasks[o].op = "createRole" /\ tasks[o].pc = "done"
        /\ Lower(tasks[t].name) = Lower(tasks[o].name))
       => (/\ E_exists \in {tasks[t].error, tasks[o].error}
           /\ createRoleStatus(E_exists) = Conflict)
  /\ booted => \A n \in USER_ROLE : Cardinality(ByName(roles, n)) = 1

\* what a request of pair p would be answered now, judged by the given map
Judged(map, p) ==
  LET out == limit(map, AccountKey(p[1], p[2]), now,
                   LoginMaxAttempts, LoginWindowMs)
  IN <<out.next, out.status, out.minutes>>

C29_TargetRoleIrrelevant ==
  /\ [](\A u \in DOMAIN users, by \in UserInputs,
          n \in RoleNames, r \in USER_ROLE \cup CustomNames :
          LET other == [users EXCEPT ![u] = r] IN
            by # u =>
            /\ assignError(roles, other, u, n, by)
                 = assignError(roles, users, u, n, by)
            /\ bulkError(roles, other, n, by) = bulkError(roles, users, n, by)
            /\ \A l \in BulkLists :
                 /\ bulkResult(roles, other, l, n, by).success
                      = bulkResult(roles, users, l, n, by).success
                 /\ bulkResult(roles, other, l, n, by).failed
                      = bulkResult(roles, users, l, n, by).failed)
  /\ [][ \A u \in DOMAIN users, by \in DOMAIN users :
          (by # u /\ users[by] = "teacher" /\ users[u] = "admin") =>
            /\ assignRoleToUser(u, "student", by) =>
                 /\ last'.status = Ok
                 /\ users' = [users EXCEPT ![u] = "student"]
            /\ \A l \in BulkLists :
                 (bulkAssignRole(l, "student", by)
                    /\ \E i \in 1..Len(l) : l[i] = u) =>
                   /\ last'.error = None
                   /\ \E i \in 1..Len(last'.success) : last'.success[i] = u
                   /\ users'[u] = "student" ]_vars

\* C29 witness: the identity that started as the administrator is a student
\* by the call of the one that started, and still is, a teacher
C29_Witness ==
  /\ last.op = "assignRoleToUser" /\ last.status = Ok
  /\ last.by = "U2" /\ last.user = "U1" /\ last.name = "student"
  /\ users["U2"] = "teacher"
  /\ users["U1"] = "student"

\* C30: whatever role the bearer token carries, verifyToken attaches the
\* role the identity store holds when the request is authenticated, and
\* answers 401 for a token whose identity is gone or is not active;
\* requireRole then decides by the attached role, and each permission check
\* of requirePermission by the role the store holds when the check reads it.
C30_StoreRoleDecides ==
  /\ [][ (req.stage \in {"none", "closed"} /\ req'.timer = "off") =>
          \A dbUp \in BOOLEAN :
            verifyToken(req'.route, req'.perm, req'.cred, dbUp) =>
              LET cred == req'.cred IN
                /\ (dbUp /\ cred.kind = "valid" /\ cred.userId \in DOMAIN users
                      /\ cred.userId \notin inactiveUsers) =>
                     /\ req'.stage = "routed"
                     /\ req'.user.role = users[cred.userId]
                /\ (dbUp /\ cred.kind = "valid"
                      /\ cred.userId \notin DOMAIN users) =>
                     Refused(req', M_userNotFound)
                /\ (dbUp /\ cred.kind = "valid" /\ cred.userId \in DOMAIN users
                      /\ cred.userId \in inactiveUsers) =>
                     Refused(req', M_notActive) ]_vars
  /\ [][ requireAdmin =>
          IF req.user.role = "admin"
          THEN req'.stage = "handler"
          ELSE /\ req'.stage = "closed"
               /\ req'.replies = Append(req.replies,
                                        Reply(Forbidden, M_insufficient)) ]_vars
  /\ [][ \A i \in DOMAIN req.checks :
          (checkUser(i) /\ req.user.userId \in DOMAIN users) =>
            req'.checks[i] = users[req.user.userId] ]_vars

\* C30 witness: a request with the token issued to a student has passed
\* requireAdmin, the identity having been made an administrator since
C30_Witness ==
  /\ req.cred.kind = "valid" /\ req.cred.userId = "U2"
  /\ req.cred.role = "student"
  /\ req.user.role = "admin"
  /\ req.stage = "handler"
  /\ \E i \in DOMAIN req.passed : req.passed[i] = "requireAdmin"

====
